---- MODULE Spec2Model ----
(***************************************************************************)
(* Model of the Telegram webhook handler of the DRAW bot                   *)
(* (src/app/api/telegram/route.ts): the pending-task state machine, the    *)
(* points ledger in the Supabase table "users" and the interleaving of     *)
(* concurrently running POST handlers at their await points.               *)
(***************************************************************************)
EXTENDS Integers, Sequences, FiniteSets, TLC

\* ------------------------------------------------------------------ bounds
\* Number of webhook events delivered in one sequential behaviour.
MaxEvents == 4
\* Number of webhook events delivered in one behaviour with concurrent invocations.
MaxConcurrentEvents == 2

\* ------------------------------------------------------- program constants
CLICK_POINTS == 1
VIDEO_POINTS == 5
AD_POINTS == 3
GUESS_POINTS == 2
\* Math.floor(Math.random() * 5) + 1 ranges over 1..GUESS_MAX
GUESS_MAX == 5
\* A row inserted with a starting bonus.
NEW_USER_POINTS_bonus == 0 + 1
\* points of a row inserted by createUser
NEW_USER_POINTS == 0
\* user?.points ?? 0
DEFAULT_POINTS == 0
HTTP_OK == 200
HTTP_FORBIDDEN == 403

ChatIds == {1, 2}
\* The POST invocations that may be in flight at the same time.
Handlers == {1, 2}

\* ------------------------------------------------------------------- texts
\* A message text is a sequence of one-character strings.
T_start == <<"/", "s", "t", "a", "r", "t">>
T_points == <<"/", "p", "o", "i", "n", "t", "s">>
T_click == <<"/", "c", "l", "i", "c", "k">>
T_video == <<"/", "v", "i", "d", "e", "o">>
T_ad == <<"/", "a", "d">>
T_done_video == <<"/", "d", "o", "n", "e", " ", "v", "i", "d", "e", "o">>
T_done_ad == <<"/", "d", "o", "n", "e", " ", "a", "d">>
T_guess == <<"/", "g", "u", "e", "s", "s">>
W_video == <<"v", "i", "d", "e", "o">>

Digits == <<"0", "1", "2", "3", "4", "5", "6", "7", "8", "9">>
IsDigit(c) == \E i \in 1..Len(Digits) : Digits[i] = c
DigitVal(c) == (CHOOSE i \in 1..Len(Digits) : Digits[i] = c) - 1
IsSpace(c) == c = " "

\* The raw message texts the environment delivers.
RawTexts ==
    { T_start, T_points, T_click, T_video, T_ad, T_done_video, T_done_ad, T_guess,
      <<"3">>, <<"4">>,
      <<"3", ".", "5">>, <<"3", "a", "b", "c">>, <<"a", "b", "c">>, <<" ", "4", " ">> }

\* ------------------------------------------------------ string primitives
\* String.prototype.trim
RECURSIVE trimStart(_)
trimStart(s) ==
    IF s # <<>> /\ IsSpace(Head(s)) THEN trimStart(Tail(s)) ELSE s

RECURSIVE trimEnd(_)
trimEnd(s) ==
    IF s # <<>> /\ IsSpace(s[Len(s)]) THEN trimEnd(SubSeq(s, 1, Len(s) - 1)) ELSE s

trim(s) == trimEnd(trimStart(s))

\* String.prototype.startsWith
startsWith(s, p) == Len(s) >= Len(p) /\ SubSeq(s, 1, Len(p)) = p

\* String.prototype.includes
includes(s, p) ==
    \E i \in 1..(Len(s) + 1) :
        /\ i + Len(p) - 1 <= Len(s)
        /\ SubSeq(s, i, i + Len(p) - 1) = p

\* The longest prefix of s made of digits.
RECURSIVE digitPrefix(_)
digitPrefix(s) ==
    IF s # <<>> /\ IsDigit(Head(s)) THEN <<Head(s)>> \o digitPrefix(Tail(s)) ELSE <<>>

RECURSIVE digitsValue(_)
digitsValue(ds) ==
    IF ds = <<>> THEN 0
    ELSE 10 * digitsValue(SubSeq(ds, 1, Len(ds) - 1)) + DigitVal(ds[Len(ds)])

\* parseInt(text, 10): leading white space is skipped, an optional sign is read,
\* then the longest run of digits; what follows the digits is ignored. NaN when
\* there is no digit.
parseInt(text) ==
    LET s == trimStart(text)
        signed == s # <<>> /\ Head(s) \in {"+", "-"}
        body == IF signed THEN Tail(s) ELSE s
        ds == digitPrefix(body)
        v == digitsValue(ds)
    IN  IF ds = <<>> THEN [nan |-> TRUE, val |-> 0]
        ELSE [nan |-> FALSE, val |-> IF signed /\ Head(s) = "-" THEN 0 - v ELSE v]


\* ------------------------------------------------------------------- state
\* type PendingTask = { type: 'video' | 'ad' | 'guess'; number?: number };
\* a missing entry of pendingTasks is NoTask, a missing number is 0.
NoTask == [type |-> "none", number |-> 0]
videoTask == [type |-> "video", number |-> 0]
adTask == [type |-> "ad", number |-> 0]
guessTask(num) == [type |-> "guess", number |-> num]
PendingTask == {NoTask, videoTask, adTask} \cup {guessTask(n) : n \in 1..GUESS_MAX}

\* A row of the table "users" (telegram_id is the key), or its absence.
NoRow == [exists |-> FALSE, points |-> 0]
Row(p) == [exists |-> TRUE, points |-> p]

VARIABLES
    users,          \* the Supabase table: chat id -> row
    pendingTasks,   \* global.__DRAW_PENDING_TASKS__: chat id -> pending task
    inflight,       \* the POST invocations: handler slot -> its frame
    delivered       \* number of webhook events delivered so far

vars == <<users, pendingTasks, inflight, delivered>>

\* The frame of a POST invocation. pc is the await the invocation is suspended at;
\* pre_row and pre_task record the user's row and pending task when the event
\* arrived; fault records a store error met by this invocation; sent counts
\* the calls of tgSendMessage; status and ok are the response returned; auth
\* records that the request carried the webhook secret.
IdleFrame ==
    [pc |-> "idle", chat |-> 0, text |-> <<>>, pre_row |-> NoRow, pre_task |-> NoTask,
     delta |-> 0, del |-> FALSE, reply |-> "", total |-> 0, fault |-> FALSE,
     status |-> 0, ok |-> FALSE, sent |-> 0, auth |-> FALSE]

\* The webhook requests: a wrong secret, an unparsable body, an update without a
\* message, a message without a usable chat id, and a message of a chat.
Requests ==
    { [secret |-> FALSE, body |-> "msg", chat |-> 1, text |-> T_click],
      [secret |-> TRUE, body |-> "bad", chat |-> 0, text |-> <<>>],
      [secret |-> TRUE, body |-> "nomsg", chat |-> 0, text |-> <<>>],
      [secret |-> TRUE, body |-> "msg", chat |-> 0, text |-> T_click] }
    \cup { [secret |-> TRUE, body |-> "msg", chat |-> c, text |-> t] :
             c \in ChatIds, t \in RawTexts }

\* The table holds the row of chat 1 from an earlier session and none for chat 2;
\* the process starts with no pending task.
Init ==
    /\ users = [c \in ChatIds |-> IF c = 1 THEN Row(NEW_USER_POINTS) ELSE NoRow]
    /\ pendingTasks = [c \in ChatIds |-> NoTask]
    /\ inflight = [h \in Handlers |-> IdleFrame]
    /\ delivered = 0

\* --------------------------------------------------------- POST: routing
\* What the synchronous part of POST after the pending-task lookup decides: the
\* await to suspend at, the ledger delta, whether the pending task is deleted
\* after the ledger update, the reply and the pending task stored at once.
Plan(pc, delta, del, reply, task) ==
    [pc |-> pc, delta |-> delta, del |-> del, reply |-> reply, task |-> task]

\* The guess-mode test left out.
isGuessMode_never(pending) == FALSE

\* if (pending?.type === 'guess')
isGuessMode(pending) == pending.type = "guess"

\* guess === pending.number
guessHits(guess, pending) == guess.val = pending.number

\* The wrong-guess branch returning without a reply.
guessBranch_silent(pending, text) ==
    LET guess == parseInt(text)
    IN  IF ~guess.nan
        THEN IF guess.val = pending.number
             THEN Plan("upd_get", GUESS_POINTS, TRUE, "correct", pending)
             ELSE Plan("done", 0, FALSE, "", pending)
        ELSE Plan("send", 0, FALSE, "numeric", pending)

\* step 4 of POST: every number counts as an attempt
guessBranch(pending, text) ==
    LET guess == parseInt(text)
    IN  IF ~guess.nan
        THEN IF guessHits(guess, pending)
             THEN Plan("upd_get", GUESS_POINTS, TRUE, "correct", pending)
             ELSE Plan("send", 0, FALSE, "wrong", pending)
        ELSE Plan("send", 0, FALSE, "numeric", pending)

\* const doneType = text.includes('video') ? 'video' : 'ad'
doneType(text) == IF includes(text, W_video) THEN "video" ELSE "ad"

\* Any pending video or ad task accepted, whatever the /done names.
doneMatches_anyKind(current, dt) == current.type \in {"video", "ad"}

\* if (current?.type === doneType)
doneMatches(current, dt) == current.type = dt

\* const pts = doneType === 'video' ? 5 : 3
donePoints(dt) == IF dt = "video" THEN VIDEO_POINTS ELSE AD_POINTS

doneBranch(current, text) ==
    LET dt == doneType(text)
    IN  IF doneMatches(current, dt)
        THEN Plan("upd_get", donePoints(dt), TRUE, "reward", current)
        ELSE Plan("send", 0, FALSE, "nopending", current)

\* step 5 of POST: the commands, in the order the code tests them; num is the
\* number Math.random yields for /guess
commandBranch(pending, text, num) ==
    IF startsWith(text, T_start) THEN Plan("ens_get", 0, FALSE, "welcome", pending)
    ELSE IF startsWith(text, T_points) THEN Plan("ens_get", 0, FALSE, "points", pending)
    ELSE IF startsWith(text, T_click)
        THEN Plan("upd_get", CLICK_POINTS, FALSE, "click", pending)
    ELSE IF startsWith(text, T_video) THEN Plan("send", 0, FALSE, "video", videoTask)
    ELSE IF startsWith(text, T_ad) THEN Plan("send", 0, FALSE, "ad", adTask)
    ELSE IF startsWith(text, T_done_video) \/ startsWith(text, T_done_ad)
        THEN doneBranch(pending, text)
    ELSE IF startsWith(text, T_guess) THEN Plan("send", 0, FALSE, "guess", guessTask(num))
    ELSE Plan("send", 0, FALSE, "unknown", pending)

route(pending, text, num) ==
    IF isGuessMode(pending) THEN guessBranch(pending, text)
    ELSE commandBranch(pending, text, num)

\* The catch block answering with a server error.
catchStatus_500 == HTTP_OK + 300

\* catch (e): return NextResponse.json({ ok: false }, { status: 200 })
catchStatus == HTTP_OK

\* The frame of an invocation that returns at once with the given status.
Returned(status, ok) == [IdleFrame EXCEPT !.pc = "done", !.status = status, !.ok = ok]

\* ------------------------------------------------------------ environment
\* Outcomes of a Supabase call (error or not) and of the Telegram sendMessage
\* fetch (2xx, non-2xx, network error thrown); a reliable environment yields
\* no error.
StoreErrors(faulty) == IF faulty THEN BOOLEAN ELSE {FALSE}
SendOutcomes(faulty) == IF faulty THEN {"ok", "notok", "throw"} ELSE {"ok"}

\* ------------------------------------------------------------ ledger store
\* getUser: the row of the chat, null (NoRow) when there is none or on error
getUser(chat, err) == IF err THEN NoRow ELSE users[chat]

\* user?.points ?? 0
pointsOf(user) == IF user.exists THEN user.points ELSE DEFAULT_POINTS

\* The delta subtracted.
newPts_minus(current, delta) == current - delta

\* const newPts = current + delta
newPts(current, delta) == current + delta

\* The update without its eq filter: every row of the table is written.
updateRow_allRows(table, chat, points, err) ==
    IF err THEN table
    ELSE [c \in DOMAIN table |-> IF table[c].exists THEN Row(points) ELSE table[c]]

\* supabase.from('users').update({points}).eq('telegram_id', id): changes the
\* rows that match, none when the chat has no row; nothing on error
updateRow(table, chat, points, err) ==
    IF ~err /\ table[chat].exists THEN [table EXCEPT ![chat] = Row(points)] ELSE table

\* supabase.from('users').insert({telegram_id, points: 0, ...}): telegram_id is
\* the key of the table, so inserting a second row for a chat is an error
insertFails(table, chat, err) == err \/ table[chat].exists

\* ------------------------------------------------------------------ actions
\* POST up to its first await after the pending-task lookup (lines 157-277):
\* the secret check, the body, the chat id, the lookup and the routing. In a
\* sequential run an event arrives only when no invocation is in flight.
POST(h, req, num, conc) ==
    /\ inflight[h].pc = "idle"
    /\ \A g \in Handlers : g < h => inflight[g].pc # "idle"
    /\ conc \/ \A g \in Handlers : inflight[g].pc = "idle"
    /\ delivered < (IF conc THEN MaxConcurrentEvents ELSE MaxEvents)
    /\ delivered' = delivered + 1
    /\ UNCHANGED users
    /\ IF ~req.secret
       THEN /\ inflight' = [inflight EXCEPT ![h] = Returned(HTTP_FORBIDDEN, FALSE)]
            /\ UNCHANGED pendingTasks
       ELSE IF req.body = "bad"
       THEN /\ inflight' = [inflight EXCEPT
                   ![h] = [Returned(catchStatus, FALSE) EXCEPT !.auth = TRUE]]
            /\ UNCHANGED pendingTasks
       ELSE IF req.body = "nomsg" \/ req.chat = 0
       THEN /\ inflight' = [inflight EXCEPT
                   ![h] = [Returned(HTTP_OK, TRUE) EXCEPT !.auth = TRUE]]
            /\ UNCHANGED pendingTasks
       ELSE LET text == trim(req.text)
                pending == pendingTasks[req.chat]
                plan == route(pending, text, num)
            IN  /\ pendingTasks' = [pendingTasks EXCEPT ![req.chat] = plan.task]
                /\ inflight' = [inflight EXCEPT ![h] =
                       [IdleFrame EXCEPT !.pc = plan.pc, !.chat = req.chat,
                                         !.text = text, !.pre_row = users[req.chat],
                                         !.pre_task = pending, !.delta = plan.delta,
                                         !.del = plan.del, !.reply = plan.reply,
                                         !.auth = TRUE]]

\* updatePoints, first await: the read of the row; newPts is computed from it
updatePoints_get(h, err) ==
    LET f == inflight[h]
        current == pointsOf(getUser(f.chat, err))
    IN  /\ f.pc = "upd_get"
        /\ inflight' = [inflight EXCEPT ![h].pc = "upd_write",
                                        ![h].total = newPts(current, f.delta),
                                        ![h].fault = f.fault \/ err]
        /\ UNCHANGED <<users, pendingTasks, delivered>>

\* updatePoints, second await: the write of newPts; an error is only logged
updatePoints_write(h, err) ==
    LET f == inflight[h]
    IN  /\ f.pc = "upd_write"
        /\ users' = updateRow(users, f.chat, f.total, err)
        /\ inflight' = [inflight EXCEPT ![h].pc = "upd_done",
                                        ![h].fault = f.fault \/ err]
        /\ UNCHANGED <<pendingTasks, delivered>>

\* POST resumes after updatePoints: delete pendingTasks[key] in the branches of
\* a correct guess and of a matching /done, then the reply is sent
POST_resume(h) ==
    LET f == inflight[h]
    IN  /\ f.pc = "upd_done"
        /\ pendingTasks' =
               IF f.del THEN [pendingTasks EXCEPT ![f.chat] = NoTask] ELSE pendingTasks
        /\ inflight' = [inflight EXCEPT ![h].pc = "send"]
        /\ UNCHANGED <<users, delivered>>

\* ensureUser, first await: getUser; a user found is reported, else createUser
ensureUser_get(h, err) ==
    LET f == inflight[h]
        user == getUser(f.chat, err)
    IN  /\ f.pc = "ens_get"
        /\ inflight' = [inflight EXCEPT
               ![h].pc = IF user.exists THEN "send" ELSE "ens_create",
               ![h].total = pointsOf(user),
               ![h].fault = f.fault \/ err]
        /\ UNCHANGED <<users, pendingTasks, delivered>>

\* ensureUser, second await: createUser inserts the row with points 0 and
\* returns it, or null on error
createUser(h, err) ==
    LET f == inflight[h]
        failed == insertFails(users, f.chat, err)
    IN  /\ f.pc = "ens_create"
        /\ users' = IF failed THEN users ELSE [users EXCEPT ![f.chat] = Row(NEW_USER_POINTS)]
        /\ inflight' = [inflight EXCEPT
               ![h].pc = "send",
               ![h].total = IF failed THEN DEFAULT_POINTS ELSE NEW_USER_POINTS,
               ![h].fault = f.fault \/ failed]
        /\ UNCHANGED <<pendingTasks, delivered>>

\* tgSendMessage and the return of POST: a non-2xx answer is logged, a thrown
\* fetch is caught by POST, which answers 200 with ok: false
tgSendMessage(h, outcome) ==
    LET f == inflight[h]
    IN  /\ f.pc = "send"
        /\ inflight' = [inflight EXCEPT ![h].pc = "done",
                                        ![h].sent = f.sent + 1,
                                        ![h].status =
                                            IF outcome = "throw" THEN catchStatus
                                            ELSE HTTP_OK,
                                        ![h].ok = (outcome # "throw")]
        /\ UNCHANGED <<users, pendingTasks, delivered>>

\* The response of a returned invocation is taken by the platform.
Respond(h) ==
    /\ inflight[h].pc = "done"
    /\ inflight' = [inflight EXCEPT ![h] = IdleFrame]
    /\ UNCHANGED <<users, pendingTasks, delivered>>

\* The targets /guess can draw when Math.random() ranges over [0, 1), including 0.
randomTargets_fromZero == {k : k \in 0..(GUESS_MAX - 1)}

\* Math.floor(Math.random() * 5) + 1
randomTargets == {k + 1 : k \in 0..(GUESS_MAX - 1)}

Next(conc, faulty) ==
    \/ \E h \in Handlers, req \in Requests, num \in randomTargets : POST(h, req, num, conc)
    \/ \E h \in Handlers, err \in StoreErrors(faulty) : updatePoints_get(h, err)
    \/ \E h \in Handlers, err \in StoreErrors(faulty) : updatePoints_write(h, err)
    \/ \E h \in Handlers : POST_resume(h)
    \/ \E h \in Handlers, err \in StoreErrors(faulty) : ensureUser_get(h, err)
    \/ \E h \in Handlers, err \in StoreErrors(faulty) : createUser(h, err)
    \/ \E h \in Handlers, outcome \in SendOutcomes(faulty) : tgSendMessage(h, outcome)
    \/ \E h \in Handlers : Respond(h)

\* Concurrent invocations, unreliable store and notifier.
Spec == Init /\ [][Next(TRUE, TRUE)]_vars

\* Events handled one at a time, reliable store and notifier.
SeqSpec == Init /\ [][Next(FALSE, FALSE)]_vars

\* Events handled one at a time, unreliable store and notifier.
SeqFaultSpec == Init /\ [][Next(FALSE, TRUE)]_vars

\* The state after chat 1, which has a row, has started one task (/video, /ad or
\* /guess) and that invocation has returned.
InitStarted ==
    /\ users = [c \in ChatIds |-> IF c = 1 THEN Row(NEW_USER_POINTS) ELSE NoRow]
    /\ pendingTasks \in {[c \in ChatIds |-> IF c = 1 THEN t ELSE NoTask] :
                             t \in {videoTask, adTask, guessTask(3)}}
    /\ inflight = [h \in Handlers |-> IdleFrame]
    /\ delivered = 0

\* Concurrent invocations after a task was started, reliable store and notifier.
StartedSpec == InitStarted /\ [][Next(TRUE, FALSE)]_vars

\* Concurrent invocations after a task was started, unreliable store and notifier.
StartedFaultSpec == InitStarted /\ [][Next(TRUE, TRUE)]_vars

\* The steps of invocation h after its arrival: every Supabase call and every
\* fetch settles (with a result, an error or a rejection) and the event loop
\* then runs the continuation.
Progress(h) ==
    \/ \E err \in BOOLEAN : updatePoints_get(h, err)
    \/ \E err \in BOOLEAN : updatePoints_write(h, err)
    \/ POST_resume(h)
    \/ \E err \in BOOLEAN : ensureUser_get(h, err)
    \/ \E err \in BOOLEAN : createUser(h, err)
    \/ \E outcome \in {"ok", "notok", "throw"} : tgSendMessage(h, outcome)

\* SeqFaultSpec with every awaited call settling.
FairSpec == SeqFaultSpec /\ \A h \in Handlers : WF_vars(Progress(h))

\* ------------------------------------------------------- claim vocabulary
\* A returned invocation that handled a message of a chat.
Handled(h) == inflight[h].pc = "done" /\ inflight[h].chat \in ChatIds

\* The balance a row stands for: its points, 0 when the chat has no row.
Balance(row) == IF row.exists THEN row.points ELSE 0

\* A well-formed base-10 integer: an optional sign, then digits and nothing else.
WellFormedInt(text) ==
    LET body == IF text # <<>> /\ Head(text) \in {"+", "-"} THEN Tail(text) ELSE text
    IN  body # <<>> /\ \A i \in 1..Len(body) : IsDigit(body[i])

IntValue(text) ==
    IF Head(text) = "-" THEN 0 - digitsValue(Tail(text))
    ELSE IF Head(text) = "+" THEN digitsValue(Tail(text))
    ELSE digitsValue(text)

\* ------------------------------------------------------------------ claims
\* C1: N concurrent /click events (updatePoints(id, 1)) of one user whose balance
\* is 0 leave a persisted balance of exactly N, under every interleaving. Stated
\* for N = the number of invocations in flight: when every invocation has
\* returned from a /click of chat c that arrived while c's row held 0 points and
\* met no store error, the row holds N points.
C1_NoLostUpdate ==
    \A c \in ChatIds :
        (\A h \in Handlers :
            /\ Handled(h)
            /\ inflight[h].chat = c
            /\ inflight[h].text = T_click
            /\ inflight[h].reply = "click"
            /\ inflight[h].pre_row = Row(0)
            /\ ~inflight[h].fault)
        => users[c] = Row(Cardinality(Handlers))

\* C2: with no Guess pending, a /click event raises the persisted balance by
\* exactly 1 and leaves the pending task unchanged; a user without a row gets
\* the row created (so the row exists afterwards and holds 1 point).
C2_ClickAddsOne ==
    \A h \in Handlers :
        LET f == inflight[h]
        IN  (Handled(h) /\ f.text = T_click /\ f.pre_task.type # "guess")
            => /\ users[f.chat] = Row(Balance(f.pre_row) + 1)
               /\ pendingTasks[f.chat] = f.pre_task

\* C3: /done video with Video pending clears the pending task and adds exactly
\* 5 to the balance; /done ad with Ad pending clears it and adds exactly 3.
C3_DoneRewards ==
    \A h \in Handlers :
        LET f == inflight[h]
        IN  /\ (Handled(h) /\ f.text = T_done_video /\ f.pre_task = videoTask)
               => /\ pendingTasks[f.chat] = NoTask
                  /\ Balance(users[f.chat]) = Balance(f.pre_row) + 5
            /\ (Handled(h) /\ f.text = T_done_ad /\ f.pre_task = adTask)
               => /\ pendingTasks[f.chat] = NoTask
                  /\ Balance(users[f.chat]) = Balance(f.pre_row) + 3

\* C4: /done video while the pending task is not Video, and /done ad while it is
\* not Ad, leave the pending task as it was (a task of the other kind is kept)
\* and leave the ledger row as it was.
C4_WrongDoneKeeps ==
    \A h \in Handlers :
        LET f == inflight[h]
        IN  (/\ Handled(h)
             /\ \/ f.text = T_done_video /\ f.pre_task.type # "video"
                \/ f.text = T_done_ad /\ f.pre_task.type # "ad")
            => /\ pendingTasks[f.chat] = f.pre_task
               /\ users[f.chat] = f.pre_row
               /\ f.delta = 0

\* C4 witness: a /done ad has been handled while a Video task was pending, and
\* the Video task is still pending.
C4_Witness ==
    \E h \in Handlers :
        /\ Handled(h)
        /\ inflight[h].text = T_done_ad
        /\ inflight[h].pre_task = videoTask
        /\ inflight[h].reply = "nopending"
        /\ pendingTasks[inflight[h].chat] = videoTask

\* C5: with Guess(r) pending and a text that is the integer n: n = r clears the
\* pending task and raises the balance by exactly 2; n # r keeps Guess(r) and
\* leaves the ledger as it was.
C5_GuessResolves ==
    \A h \in Handlers :
        LET f == inflight[h]
        IN  (Handled(h) /\ f.pre_task.type = "guess" /\ WellFormedInt(f.text))
            => IF IntValue(f.text) = f.pre_task.number
               THEN /\ pendingTasks[f.chat] = NoTask
                    /\ Balance(users[f.chat]) = Balance(f.pre_row) + 2
               ELSE /\ pendingTasks[f.chat] = f.pre_task
                    /\ users[f.chat] = f.pre_row

\* C6: while a Guess is pending, every text that is not an integer (commands
\* included) gets the numeric-guidance reply, keeps the pending Guess and
\* leaves the ledger as it was.
C6_NonIntegerGuided ==
    \A h \in Handlers :
        LET f == inflight[h]
        IN  (Handled(h) /\ f.pre_task.type = "guess" /\ ~WellFormedInt(f.text))
            => /\ f.reply = "numeric"
               /\ pendingTasks[f.chat] = f.pre_task
               /\ users[f.chat] = f.pre_row

\* C7: text that is not a well-formed integer is never taken as a guess: with
\* Guess(r) pending it never clears the pending task and never changes the
\* balance, even when its leading digits equal r.
C7_MalformedNotAGuess ==
    \A h \in Handlers :
        LET f == inflight[h]
        IN  (Handled(h) /\ f.pre_task.type = "guess" /\ ~WellFormedInt(f.text))
            => /\ pendingTasks[f.chat] = f.pre_task
               /\ Balance(users[f.chat]) = Balance(f.pre_row)

\* C8: each chat has at most one pending task; with no Guess pending /video, /ad
\* and /guess store Video, Ad and Guess(r), whatever was pending, and leave the
\* ledger as it was; with a Guess pending none of them replaces it.
C8_BeginReplaces ==
    /\ pendingTasks \in [ChatIds -> PendingTask]
    /\ \A h \in Handlers :
        LET f == inflight[h]
            now == pendingTasks[f.chat]
        IN  (Handled(h) /\ f.text \in {T_video, T_ad, T_guess})
            => /\ users[f.chat] = f.pre_row
               /\ f.delta = 0
               /\ IF f.pre_task.type = "guess" THEN now = f.pre_task
                  ELSE IF f.text = T_video THEN now = videoTask
                  ELSE IF f.text = T_ad THEN now = adTask
                  ELSE now.type = "guess"

\* C8 witness: /ad has been handled while a Video task was pending and the Ad
\* task has replaced it.
C8_Witness ==
    \E h \in Handlers :
        /\ Handled(h)
        /\ inflight[h].text = T_ad
        /\ inflight[h].pre_task = videoTask
        /\ pendingTasks[inflight[h].chat] = adTask

\* C9: in every reachable state every persisted balance is >= 0.
C9_NonNegative == \A c \in ChatIds : users[c].points >= 0

\* C9 witness: rewards have been applied: some row holds a positive balance
\* written by an invocation that has returned.
C9_Witness ==
    \E h \in Handlers :
        /\ Handled(h)
        /\ inflight[h].delta > 0
        /\ users[inflight[h].chat].exists
        /\ users[inflight[h].chat].points > 0

\* C10: /start and /points leave the persisted balance and the pending task as
\* they were, apart from creating a missing row with 0 points, and (when they
\* reach the command branch) report the persisted balance, so that repeating
\* them reports the same balance.
C10_ReadOnlyCommands ==
    \A h \in Handlers :
        LET f == inflight[h]
        IN  (Handled(h) /\ f.text \in {T_start, T_points})
            => /\ pendingTasks[f.chat] = f.pre_task
               /\ Balance(users[f.chat]) = Balance(f.pre_row)
               /\ f.pre_row.exists => users[f.chat] = f.pre_row
               /\ f.pre_task.type # "guess"
                  => /\ users[f.chat] = Row(Balance(f.pre_row))
                     /\ f.total = Balance(f.pre_row)
                     /\ f.reply = IF f.text = T_start THEN "welcome" ELSE "points"

\* C10 witness: /points has been handled for a user with a positive balance and
\* has reported it.
C10_Witness ==
    \E h \in Handlers :
        /\ Handled(h)
        /\ inflight[h].text = T_points
        /\ inflight[h].pre_row.exists
        /\ inflight[h].pre_row.points > 0
        /\ inflight[h].total = inflight[h].pre_row.points

\* C11: every event that carries the webhook secret is eventually acknowledged
\* with HTTP 200, whatever happens while it is handled (store errors, a non-2xx
\* or thrown sendMessage, an unparsable body): an invocation that has returned
\* for such an event returned 200, and one in flight returns.
C11_Acknowledged ==
    /\ [](\A h \in Handlers :
            (inflight[h].pc = "done" /\ inflight[h].auth)
            => inflight[h].status = HTTP_OK)
    /\ \A h \in Handlers :
            (inflight[h].pc # "idle" /\ inflight[h].auth)
            ~> (inflight[h].pc = "done" /\ inflight[h].status = HTTP_OK)

\* C11 witness: an invocation that met a store error and whose sendMessage threw
\* has returned 200.
C11_Witness ==
    \E h \in Handlers :
        /\ Handled(h)
        /\ inflight[h].fault
        /\ ~inflight[h].ok
        /\ inflight[h].status = HTTP_OK

\* C12: when the ledger store fails (read or write error) during an event that
\* applies a reward (/click, a matching /done, a correct guess), the user is not
\* sent the reward acknowledgement with a new total, and the event is still
\* acknowledged with 200.
C12_FailureReply ==
    \A h \in Handlers :
        LET f == inflight[h]
        IN  (Handled(h) /\ f.delta > 0 /\ f.fault)
            => /\ f.reply \notin {"click", "reward", "correct"}
               /\ f.status = HTTP_OK

\* C13: handling an event of user A never changes the pending task or the
\* balance of another user B, under any interleaving: every step of an
\* invocation leaves the row and the pending task of every chat other than the
\* invocation's own as they were.
C13_OtherUsersUntouched ==
    [][\A h \in Handlers :
          inflight'[h] # inflight[h]
          => \A b \in ChatIds :
                (b # inflight[h].chat /\ b # inflight'[h].chat)
                => /\ users'[b] = users[b]
                   /\ pendingTasks'[b] = pendingTasks[b]]_vars

\* C13 witness: a reward of chat 1 has been persisted while chat 2 holds a
\* pending task of its own.
C13_Witness ==
    \E h \in Handlers :
        /\ Handled(h)
        /\ inflight[h].chat = 1
        /\ inflight[h].delta > 0
        /\ users[1].points > 0
        /\ pendingTasks[2] # NoTask

\* C14: every invocation for an event that has a message and a chat id sends
\* exactly one reply (one call of tgSendMessage), in every branch; an invocation
\* that returns before the routing sends none.
C14_OneReply ==
    \A h \in Handlers :
        LET f == inflight[h]
        IN  /\ Handled(h) => (f.sent = 1 /\ f.reply # "")
            /\ (f.pc = "done" /\ f.chat \notin ChatIds) => f.sent = 0
            /\ f.sent <= 1

\* C14 witness: a reward branch (ledger update, deletion of the pending task,
\* then the reply) has returned after its one reply.
C14_Witness ==
    \E h \in Handlers :
        /\ Handled(h)
        /\ inflight[h].del
        /\ inflight[h].reply \in {"reward", "correct"}
        /\ inflight[h].sent = 1

\* C15: in every reachable state every pending task of kind guess has an integer
\* target between 1 and 5, and the input consisting of that number resolves it.
C15_TargetInRange ==
    \A c \in ChatIds :
        pendingTasks[c].type = "guess"
        => /\ pendingTasks[c].number \in 1..5
           /\ route(pendingTasks[c], <<Digits[pendingTasks[c].number + 1]>>, 1).reply = "correct"

\* C15 witness: /guess has stored a pending guess with the largest target.
C15_Witness ==
    \E c \in ChatIds, h \in Handlers :
        /\ Handled(h) /\ inflight[h].chat = c /\ inflight[h].text = T_guess
        /\ inflight[h].pre_task = NoTask
        /\ pendingTasks[c] = guessTask(GUESS_MAX)

\* C16: a started task is rewarded at most once under any interleaving: when an
\* invocation g has written the reward of a pending task, the write of another
\* invocation h rewarding the same pending task of the same chat does not raise
\* the balance again.
C16_RewardedOnce ==
    [][\A h, g \in Handlers :
          (/\ h # g
           /\ inflight[h].pc = "upd_write" /\ inflight'[h].pc = "upd_done"
           /\ inflight[h].del /\ inflight[g].del
           /\ inflight[g].chat = inflight[h].chat
           /\ inflight[g].pre_task = inflight[h].pre_task
           /\ inflight[g].pc \in {"upd_done", "send", "done"})
          => Balance(users'[inflight[h].chat]) <= Balance(users[inflight[h].chat])]_vars

\* C17: the persisted balance of a user never decreases: in every step, with
\* concurrent events for the same user and with failing ledger reads, the
\* balance after the step is at least the balance before it.
C17_NeverDecreases ==
    [][\A c \in ChatIds : Balance(users'[c]) >= Balance(users[c])]_vars

\* C18: with events handled one at a time, the new total reported in the reply of
\* a reward-applying event (/click, matching /done, correct guess) equals the
\* persisted balance of the user right after the event, also when the user had
\* no row before it and when the ledger write reports an error.
C18_ReportedIsPersisted ==
    \A h \in Handlers :
        (Handled(h) /\ inflight[h].delta > 0)
        => inflight[h].total = Balance(users[inflight[h].chat])

\* C19: with events handled one at a time, a pending Guess(r) stays Guess(r)
\* through every event of that chat until an event whose text parses to r
\* arrives: the only step that leaves or alters it belongs to an invocation for
\* that chat whose text is the integer r.
C19_GuessStays ==
    [][\A c \in ChatIds :
          (pendingTasks[c].type = "guess" /\ pendingTasks'[c] # pendingTasks[c])
          => \E h \in Handlers :
                /\ inflight'[h].chat = c
                /\ inflight'[h].pc # "idle"
                /\ WellFormedInt(inflight'[h].text)
                /\ IntValue(inflight'[h].text) = pendingTasks[c].number]_vars

====
